---- MODULE Spec2Model ----
(***************************************************************************)
(* A model of the Braintree mirror in sample/bt: the local tables          *)
(* (Customer, Address, CreditCard, Subscription, SubscriptionAddOn,        *)
(* SubscriptionDiscount), the managers that upsert them from remote        *)
(* objects, and the write-through helpers of Subscription.                 *)
(*                                                                         *)
(* Every handler is one atomic action: the code runs one request on one    *)
(* thread.  Spec runs the managers and the Subscription methods over one   *)
(* subscription, SpecTwo over two, SpecApp adds the REST and admin         *)
(* requests.  The gateway is the environment: it is reachable or not (gwUp), *)
(* and it holds a status per subscription (gwStatus).  What the gateway    *)
(* holds as add-ons and discounts is not tracked: a remote object handed   *)
(* to a sync carries any modifiers.                                        *)
(*                                                                         *)
(* Fields that are copied verbatim and never read by the code (dates,      *)
(* amounts, names, billing cycles) are left out of the rows; "data" stands *)
(* for the copied descriptive fields of a credit card or a customer.       *)
(***************************************************************************)
EXTENDS Integers, FiniteSets, Sequences, TLC

\* ------------------------------------------------------------------ bounds
\* Largest quantity a caller or a remote modifier carries.
MaxQty == 1
\* How many join rows (SubscriptionAddOn and SubscriptionDiscount together) a
\* run creates.
MaxRows == 2
\* The same, in the runs that also take the REST and admin requests.
AppMaxRows == 1
\* The same, in the runs of the batch sync.
BatchMaxRows == 1

\* --------------------------------------------------------------- universes
SubIds == {"s1", "s2"}
\* The subscription that the runs over a single subscription use.
OneSubscription == {"s1"}
Tokens == {"t1"}
CustomerIds == {"c1"}
AddressIds == {"ad1"}
\* Plan, AddOn and Discount rows are written by nothing in these sources:
\* the local tables are fixed.  "p2" is a plan the gateway knows and the
\* local Plan table does not.
PlanIds == {"p1", "p2"}
LocalPlans == {"p1"}
AddOnIds == {"a1"}
DiscountIds == {"d1"}
ItemKeys == {"add_on", "discount"}
Items(item_key) == IF item_key = "add_on" THEN AddOnIds ELSE DiscountIds
Quantities == 0 .. MaxQty

\* SubscriptionStatus (the two the operations here move between).
ACTIVE == "Active"
CANCELED == "Canceled"
Statuses == {ACTIVE, CANCELED}

\* The primary key a row gets when a POST body carries none: CharField's
\* empty default.
BlankKey == ""

VARIABLES
    gwUp,          \* the gateway answers (FALSE: every gateway call raises)
    gwStatus,      \* gateway: status of each subscription
    customers,     \* local Customer rows        [id, data]
    addresses,     \* local Address rows         [id, customer]
    cards,         \* local CreditCard rows      [token, customer, billing_address, data]
    subs,          \* local Subscription rows    [id, payment_method, plan, status]
    modifierRows,  \* item_key -> local SubscriptionAddOn / SubscriptionDiscount rows
                   \*             [id, subscription, item, quantity]
    nextId,        \* item_key -> the next AutoField value of that table
    batch,         \* where a running update_or_create_from_sync(ids) stands
    last           \* what the most recent operation was and how it ended

vars ==
    <<gwUp, gwStatus, customers, addresses, cards, subs, modifierRows, nextId, batch, last>>
tables == <<customers, addresses, cards, subs, modifierRows>>

\* The local database as one value, so that handlers compose.
Db ==
    [customers |-> customers, addresses |-> addresses, cards |-> cards,
     subs |-> subs, modifierRows |-> modifierRows, nextId |-> nextId]

SetDb(d) ==
    /\ customers' = d.customers
    /\ addresses' = d.addresses
    /\ cards' = d.cards
    /\ subs' = d.subs
    /\ modifierRows' = d.modifierRows
    /\ nextId' = d.nextId

\* The model stops creating join rows after max_rows of them.
IdsWithinBound(d, max_rows) ==
    (d.nextId["add_on"] - 1) + (d.nextId["discount"] - 1) <= max_rows

\* ---------------------------------------------------------- remote objects
NoModifiers == << >>
RemoteModifiers(item_key) ==
    {NoModifiers} \cup
    {<<[id |-> i, quantity |-> q]>> : i \in Items(item_key), q \in Quantities}

\* The remote Subscriptions of these ids, as the gateway returns them now.
RemoteSubscriptions(ids) ==
    {[id |-> s, payment_method_token |-> t, plan_id |-> p, status |-> gwStatus[s],
      add_ons |-> a, discounts |-> d] :
        s \in ids, t \in Tokens, p \in PlanIds,
        a \in RemoteModifiers("add_on"), d \in RemoteModifiers("discount")}

\* A remote CreditCard: the gateway's card of that token.
RemoteCreditCard(token) ==
    [token |-> token, customer_id |-> "c1", billing_address |-> "ad1", data |-> "remote"]

NoArg ==
    [id |-> "-", payment_method_token |-> "-", plan_id |-> "-", status |-> "-",
     add_ons |-> NoModifiers, discounts |-> NoModifiers]

\* ------------------------------------------------------------- ORM helpers
\* QuerySet.update_or_create on a table keyed by its primary key.
UpsertCustomer(rows, id, data) ==
    {x \in rows : x.id # id} \cup {[id |-> id, data |-> data]}

UpsertAddress(rows, id, customer) ==
    {x \in rows : x.id # id} \cup {[id |-> id, customer |-> customer]}

UpsertCreditCard(rows, token, defaults) ==
    {x \in rows : x.token # token} \cup
    {[token |-> token, customer |-> defaults.customer,
      billing_address |-> defaults.billing_address, data |-> defaults.data]}

\* A variant of the Subscription upsert that leaves id out of the row it
\* saves, which then sits under CharField's empty default.
UpsertSubscriptionUnderBlankKey(rows, id, defaults) ==
    {x \in rows : x.id # BlankKey} \cup
    {[id |-> BlankKey, payment_method |-> defaults.payment_method,
      plan |-> defaults.plan, status |-> defaults.status]}

UpsertSubscription(rows, id, defaults) ==
    {x \in rows : x.id # id} \cup
    {[id |-> id, payment_method |-> defaults.payment_method,
      plan |-> defaults.plan, status |-> defaults.status]}

\* instance.subscription_add_ons / instance.subscription_discounts filtered
\* on the item: the rows a .get(add_on=...) or .get(discount=...) looks at.
Matching(d, item_key, sub, item) ==
    {x \in d.modifierRows[item_key] : x.subscription = sub /\ x.item = item}

\* creator.objects.create(...) / the create branch of update_or_create: a new
\* row under the table's next AutoField value.
CreateModifier(d, item_key, sub, item, quantity) ==
    [d EXCEPT
        !.modifierRows[item_key] =
            @ \cup {[id |-> d.nextId[item_key], subscription |-> sub,
                     item |-> item, quantity |-> quantity]},
        !.nextId[item_key] = @ + 1]

\* sub_item.quantity = quantity; sub_item.save()
SaveQuantity(d, item_key, row, quantity) ==
    [d EXCEPT
        !.modifierRows[item_key] =
            (@ \ {row}) \cup {[row EXCEPT !.quantity = quantity]}]

\* ------------------------------------------------------- Customer, Address
\* customer.py is not among the sources at hand; the two managers below follow
\* the specification's "upsert a local row keyed by the gateway's identifier,
\* resolving foreign keys by recursively syncing related remote objects if
\* absent locally".

\* Customer.objects.get_or_sync(id)
CustomerGetOrSync(d, up, id) ==
    IF \E c \in d.customers : c.id = id
    THEN [db |-> d, raised |-> FALSE, finds |-> 0, lookup_failed |-> FALSE]
    ELSE IF ~up
    THEN [db |-> d, raised |-> TRUE, finds |-> 1, lookup_failed |-> TRUE]
    ELSE [db |-> [d EXCEPT !.customers = UpsertCustomer(@, id, "remote")],
          raised |-> FALSE, finds |-> 1, lookup_failed |-> FALSE]

\* Address.objects.update_or_create_from_remote_object(remote_address)
AddressUpdateOrCreateFromRemoteObject(d, id, customer) ==
    [d EXCEPT !.addresses = UpsertAddress(@, id, customer)]

\* -------------------------------------------------------- CreditCardManager
NoAddress == "None"

\* CreditCardManager.update_or_create_from_remote_object(remote_obj)
CreditCardUpdateOrCreateFromRemoteObject(d, up, remote_obj) ==
    LET c == CustomerGetOrSync(d, up, remote_obj.customer_id) IN
    IF c.raised
    THEN c
    ELSE
        LET d1 == IF remote_obj.billing_address # NoAddress
                  THEN AddressUpdateOrCreateFromRemoteObject(
                           c.db, remote_obj.billing_address, remote_obj.customer_id)
                  ELSE c.db
            d2 == [d1 EXCEPT !.cards =
                      UpsertCreditCard(@, remote_obj.token,
                          [billing_address |-> remote_obj.billing_address,
                           customer |-> remote_obj.customer_id,
                           data |-> remote_obj.data])]
        IN [c EXCEPT !.db = d2]

\* CreditCardManager.update_or_create_from_sync(token): gateway.credit_card.find
\* raises when the gateway does not answer, and nothing here catches it.
CreditCardUpdateOrCreateFromSync(d, up, token) ==
    IF ~up
    THEN [db |-> d, raised |-> TRUE, finds |-> 1, lookup_failed |-> TRUE]
    ELSE
        LET o == CreditCardUpdateOrCreateFromRemoteObject(d, up, RemoteCreditCard(token))
        IN [o EXCEPT !.finds = @ + 1]

\* A variant of get_or_sync that swallows DoesNotExist instead of syncing.
CreditCardGetOnly(d, up, token) ==
    [db |-> d, raised |-> FALSE, finds |-> 0, lookup_failed |-> FALSE]

\* A variant of get_or_sync that fetches the card whether or not it is held.
CreditCardAlwaysSync(d, up, token) ==
    CreditCardUpdateOrCreateFromSync(d, up, token)

\* CreditCardManager.get_or_sync(token)
CreditCardGetOrSync(d, up, token) ==
    IF \E c \in d.cards : c.token = token
    THEN [db |-> d, raised |-> FALSE, finds |-> 0, lookup_failed |-> FALSE]
    ELSE CreditCardUpdateOrCreateFromSync(d, up, token)

\* ------------------------------------------------------ SubscriptionManager
\* A variant of the modifier upsert that creates a row on every call.
ModifierAlwaysCreate(d, item_key, sub, modifier) ==
    [db |-> CreateModifier(d, item_key, sub, modifier.id, modifier.quantity),
     raised |-> FALSE]

\* modifier_manager.update_or_create(**{related_id: modifier.id}, defaults=...):
\* no matching row: create; one: update; several: MultipleObjectsReturned.
ModifierUpdateOrCreate(d, item_key, sub, modifier) ==
    LET m == Matching(d, item_key, sub, modifier.id) IN
    IF m = {}
    THEN [db |-> CreateModifier(d, item_key, sub, modifier.id, modifier.quantity),
          raised |-> FALSE]
    ELSE IF Cardinality(m) = 1
    THEN [db |-> SaveQuantity(d, item_key, CHOOSE x \in m : TRUE, modifier.quantity),
          raised |-> FALSE]
    ELSE [db |-> d, raised |-> TRUE]

\* for modifier in subscription_modifiers: ... (the inner loop, one table)
RECURSIVE SyncModifiers(_, _, _, _)
SyncModifiers(d, item_key, sub, subscription_modifiers) ==
    IF subscription_modifiers = << >>
    THEN [db |-> d, raised |-> FALSE]
    ELSE
        LET o == ModifierUpdateOrCreate(d, item_key, sub, Head(subscription_modifiers))
        IN IF o.raised
           THEN o
           ELSE SyncModifiers(o.db, item_key, sub, Tail(subscription_modifiers))

\* SubscriptionManager.update_or_create_from_remote_object(remote_obj).
\* ret is what the call returns when it does not raise: "instance" for
\* (instance, updated), "None" after the except branch has logged.
SubscriptionUpdateOrCreateFromRemoteObject(d, up, remote_obj) ==
    LET cc == CreditCardGetOrSync(d, up, remote_obj.payment_method_token) IN
    IF cc.raised
    THEN [db |-> cc.db, raised |-> TRUE, finds |-> cc.finds,
          lookup_failed |-> cc.lookup_failed, logged |-> FALSE, ret |-> "-"]
    ELSE IF remote_obj.plan_id \notin LocalPlans
    THEN \* Plan.objects.get raises DoesNotExist inside the try
         [db |-> cc.db, raised |-> FALSE, finds |-> cc.finds,
          lookup_failed |-> FALSE, logged |-> TRUE, ret |-> "None"]
    ELSE
        LET d1 == [cc.db EXCEPT !.subs =
                      UpsertSubscription(@, remote_obj.id,
                          [payment_method |-> remote_obj.payment_method_token,
                           plan |-> remote_obj.plan_id,
                           status |-> remote_obj.status])]
            a == SyncModifiers(d1, "add_on", remote_obj.id, remote_obj.add_ons)
            b == IF a.raised
                 THEN a
                 ELSE SyncModifiers(a.db, "discount", remote_obj.id, remote_obj.discounts)
        IN [db |-> b.db, raised |-> FALSE, finds |-> cc.finds,
            lookup_failed |-> FALSE, logged |-> b.raised,
            ret |-> IF b.raised THEN "None" ELSE "instance"]

\* ------------------------------------------------------------ Subscription
\* self.subscription_add_ons.get(add_on=add_on).quantity, with
\* ObjectDoesNotExist turned into 0; MultipleObjectsReturned is not caught.
ItemQuantity(d, item_key, sub, item) ==
    LET m == Matching(d, item_key, sub, item) IN
    IF m = {}
    THEN [raised |-> FALSE, value |-> 0]
    ELSE IF Cardinality(m) = 1
    THEN [raised |-> FALSE, value |-> (CHOOSE x \in m : TRUE).quantity]
    ELSE [raised |-> TRUE, value |-> 0]

add_on_quantity(d, sub, add_on) == ItemQuantity(d, "add_on", sub, add_on)
discount_quantity(d, sub, discount) == ItemQuantity(d, "discount", sub, discount)

\* has_add_on / has_discount: quantity > 0
HasItem(d, item_key, sub, item) ==
    LET q == ItemQuantity(d, item_key, sub, item) IN
    [raised |-> q.raised, value |-> (~q.raised /\ q.value > 0)]

has_add_on(d, sub, add_on) == HasItem(d, "add_on", sub, add_on)
has_discount(d, sub, discount) == HasItem(d, "discount", sub, discount)

\* What gateway.subscription.update does once it is called.
UpdateResults == {"success", "error_result", "raise"}

\* _subscription_gateway followed by _update_subscription: the find is caught
\* and reported, the update is sent only when the find returned something, and
\* its result is dropped.
UpdateSubscription(up, upd) ==
    IF ~up
    THEN [raised |-> FALSE, reports |-> 1, finds |-> 1, lookup_failed |-> TRUE,
          sent |-> FALSE, applied |-> FALSE]
    ELSE [raised |-> (upd = "raise"), reports |-> 0, finds |-> 1,
          lookup_failed |-> FALSE, sent |-> TRUE, applied |-> (upd = "success")]

NoCall ==
    [raised |-> FALSE, reports |-> 0, finds |-> 0, lookup_failed |-> FALSE,
     sent |-> FALSE, applied |-> FALSE]

\* Subscription._set_item(item, quantity), for self.id = sub.
SetItem(d, up, upd, sub, item_key, item, quantity) ==
    LET checker == HasItem(d, item_key, sub, item) IN
    IF checker.raised
    THEN [db |-> d, call |-> [NoCall EXCEPT !.raised = TRUE], mod_str |-> "-"]
    ELSE
        LET mod_str == IF checker.value THEN "update" ELSE "add"
            g == UpdateSubscription(up, upd)
        IN IF g.raised
           THEN [db |-> d, call |-> g, mod_str |-> mod_str]
           ELSE IF mod_str = "update"
           THEN [db |-> SaveQuantity(d, item_key,
                            CHOOSE x \in Matching(d, item_key, sub, item) : TRUE,
                            quantity),
                 call |-> g, mod_str |-> mod_str]
           ELSE [db |-> CreateModifier(d, item_key, sub, item, quantity),
                 call |-> g, mod_str |-> mod_str]

\* A variant of remove_* without the has_* guard.
RemoveItemUnguarded(d, up, upd, sub, item_key, item) ==
    LET g == UpdateSubscription(up, upd) IN
    IF g.raised
    THEN [db |-> d, call |-> g, mod_str |-> "remove"]
    ELSE [db |-> [d EXCEPT !.modifierRows[item_key] =
                      @ \ Matching(d, item_key, sub, item)],
          call |-> g, mod_str |-> "remove"]

\* A variant of remove_* whose delete is not restricted to the rows of self.
RemoveItemOfAnySubscription(d, up, upd, sub, item_key, item) ==
    LET checker == HasItem(d, item_key, sub, item) IN
    IF checker.raised
    THEN [db |-> d, call |-> [NoCall EXCEPT !.raised = TRUE], mod_str |-> "-"]
    ELSE IF ~checker.value
    THEN [db |-> d, call |-> [NoCall EXCEPT !.reports = 1], mod_str |-> "-"]
    ELSE
        LET g == UpdateSubscription(up, upd) IN
        IF g.raised
        THEN [db |-> d, call |-> g, mod_str |-> "remove"]
        ELSE [db |-> [d EXCEPT !.modifierRows[item_key] =
                          {x \in @ : x.item # item}],
              call |-> g, mod_str |-> "remove"]

\* Subscription.remove_add_on / remove_discount, for self.id = sub.
RemoveItem(d, up, upd, sub, item_key, item) ==
    LET checker == HasItem(d, item_key, sub, item) IN
    IF checker.raised
    THEN [db |-> d, call |-> [NoCall EXCEPT !.raised = TRUE], mod_str |-> "-"]
    ELSE IF ~checker.value
    THEN \* sentry_sdk.capture_message(...); return
         [db |-> d, call |-> [NoCall EXCEPT !.reports = 1], mod_str |-> "-"]
    ELSE
        LET g == UpdateSubscription(up, upd) IN
        IF g.raised
        THEN [db |-> d, call |-> g, mod_str |-> "remove"]
        ELSE [db |-> [d EXCEPT !.modifierRows[item_key] =
                          @ \ Matching(d, item_key, sub, item)],
              call |-> g, mod_str |-> "remove"]

\* Subscription.cancel(), for self.id = sub: one gateway call, whose result is
\* returned.  The gateway refuses to cancel what is canceled already.
Cancel(up, status) ==
    IF ~up
    THEN [raised |-> TRUE, ret |-> "-", status |-> status]
    ELSE IF status = CANCELED
    THEN [raised |-> FALSE, ret |-> "error_result", status |-> status]
    ELSE [raised |-> FALSE, ret |-> "success", status |-> CANCELED]

\* ------------------------------------------------------------------- state
Quiet ==
    [op |-> "init", id |-> "-", item_key |-> "-", item |-> "-", quantity |-> 0,
     arg |-> NoArg, twice |-> FALSE, raised |-> FALSE, reports |-> 0, finds |-> 0,
     lookup_failed |-> FALSE, sent |-> FALSE, applied |-> FALSE, mod_str |-> "-",
     logged |-> FALSE, ret |-> "-"]

\* No update_or_create_from_sync call is under way.
Idle == [pc |-> "idle", todo |-> << >>, attempted |-> {}]

Init ==
    /\ gwUp = TRUE
    /\ gwStatus = [s \in SubIds |-> ACTIVE]
    /\ customers = {}
    /\ addresses = {}
    /\ cards = {}
    /\ subs = {}
    /\ modifierRows = [k \in ItemKeys |-> {}]
    /\ nextId = [k \in ItemKeys |-> 1]
    /\ batch = Idle
    /\ last = Quiet

\* ----------------------------------------------------------------- actions
\* Subscription.objects.update_or_create_from_remote_object(remote_obj)
SyncSubscriptionOf(ids, max_rows) ==
    \E remote_obj \in RemoteSubscriptions(ids) :
        LET o == SubscriptionUpdateOrCreateFromRemoteObject(Db, gwUp, remote_obj) IN
        /\ IdsWithinBound(o.db, max_rows)
        /\ SetDb(o.db)
        /\ last' = [Quiet EXCEPT
                !.op = "sync_subscription", !.id = remote_obj.id, !.arg = remote_obj,
                !.twice = (last.op = "sync_subscription" /\ last.arg = remote_obj),
                !.raised = o.raised, !.finds = o.finds,
                !.lookup_failed = o.lookup_failed, !.logged = o.logged,
                !.ret = o.ret]
        /\ UNCHANGED <<batch, gwUp, gwStatus>>

SyncSubscription == SyncSubscriptionOf(OneSubscription, MaxRows)

\* CreditCard.objects.update_or_create_from_remote_object(remote_obj)
SyncCreditCard ==
    \E token \in Tokens :
        LET o == CreditCardUpdateOrCreateFromRemoteObject(Db, gwUp, RemoteCreditCard(token)) IN
        /\ SetDb(o.db)
        /\ last' = [Quiet EXCEPT
                !.op = "sync_credit_card", !.id = token,
                !.twice = (last.op = "sync_credit_card" /\ last.id = token),
                !.raised = o.raised, !.finds = o.finds,
                !.lookup_failed = o.lookup_failed,
                !.ret = IF o.raised THEN "-" ELSE "instance"]
        /\ UNCHANGED <<batch, gwUp, gwStatus>>

\* self._set_item(item, quantity) on a local Subscription
SetItemOn(item_key, max_rows) ==
    \E self \in subs, item \in Items(item_key), quantity \in Quantities,
       upd \in UpdateResults :
        LET o == SetItem(Db, gwUp, upd, self.id, item_key, item, quantity) IN
        /\ IdsWithinBound(o.db, max_rows)
        /\ SetDb(o.db)
        /\ last' = [Quiet EXCEPT
                !.op = "set", !.id = self.id, !.item_key = item_key, !.item = item,
                !.quantity = quantity, !.raised = o.call.raised,
                !.reports = o.call.reports, !.finds = o.call.finds,
                !.lookup_failed = o.call.lookup_failed, !.sent = o.call.sent,
                !.applied = o.call.applied, !.mod_str = o.mod_str]
        /\ UNCHANGED <<batch, gwUp, gwStatus>>

set_add_on == SetItemOn("add_on", MaxRows)
set_discount == SetItemOn("discount", MaxRows)

RemoveItemOn(item_key) ==
    \E self \in subs, item \in Items(item_key), upd \in UpdateResults :
        LET o == RemoveItem(Db, gwUp, upd, self.id, item_key, item) IN
        /\ SetDb(o.db)
        /\ last' = [Quiet EXCEPT
                !.op = "remove", !.id = self.id, !.item_key = item_key, !.item = item,
                !.raised = o.call.raised,
                !.reports = o.call.reports, !.finds = o.call.finds,
                !.lookup_failed = o.call.lookup_failed, !.sent = o.call.sent,
                !.applied = o.call.applied, !.mod_str = o.mod_str]
        /\ UNCHANGED <<batch, gwUp, gwStatus>>

remove_add_on == RemoveItemOn("add_on")
remove_discount == RemoveItemOn("discount")

\* A variant of cancel() that also writes the gateway's answer to the row.
cancel_and_save ==
    \E self \in subs :
        LET o == Cancel(gwUp, gwStatus[self.id]) IN
        /\ gwStatus' = [gwStatus EXCEPT ![self.id] = o.status]
        /\ subs' = (subs \ {self}) \cup {[self EXCEPT !.status = o.status]}
        /\ last' = [Quiet EXCEPT
                !.op = "cancel", !.id = self.id, !.raised = o.raised,
                !.sent = gwUp, !.applied = (o.ret = "success"), !.ret = o.ret]
        /\ UNCHANGED <<batch, gwUp, customers, addresses, cards, modifierRows, nextId>>

\* self.cancel() on a local Subscription
cancel ==
    \E self \in subs :
        LET o == Cancel(gwUp, gwStatus[self.id]) IN
        /\ gwStatus' = [gwStatus EXCEPT ![self.id] = o.status]
        /\ last' = [Quiet EXCEPT
                !.op = "cancel", !.id = self.id, !.raised = o.raised,
                !.sent = gwUp, !.applied = (o.ret = "success"), !.ret = o.ret]
        /\ UNCHANGED <<batch, gwUp, customers, addresses, cards, subs, modifierRows, nextId>>

\* The environment: the gateway stops or starts answering.
GatewayFlips ==
    /\ gwUp' = ~gwUp
    /\ last' = [Quiet EXCEPT !.op = "gateway"]
    /\ UNCHANGED <<batch, gwStatus, customers, addresses, cards, subs, modifierRows, nextId>>

Next ==
    \/ SyncSubscription
    \/ SyncCreditCard
    \/ set_add_on
    \/ set_discount
    \/ remove_add_on
    \/ remove_discount
    \/ cancel
    \/ GatewayFlips

\* The managers and the Subscription methods over one subscription.
Spec == Init /\ [][Next]_vars

\* The same operations over the two subscriptions of SubIds.
NextTwo ==
    \/ SyncSubscriptionOf(SubIds, MaxRows)
    \/ SyncCreditCard
    \/ set_add_on
    \/ set_discount
    \/ remove_add_on
    \/ remove_discount
    \/ cancel
    \/ GatewayFlips

SpecTwo == Init /\ [][NextTwo]_vars

\* ------------------------------------ SubscriptionManager.update_or_create_from_sync
\* The batch sync runs as one step per gateway exchange, so that the gateway
\* may stop answering between two subscriptions of a batch.  batch.pc is
\* "running" while the loop has subscriptions left, "done" once the loop has
\* ended, "raised" once an exception has left the call.

\* The id lists a caller passes.
BatchIds == {<<"s1">>, <<"s2">>, <<"s1", "s2">>, <<"s2", "s1">>}

\* gateway = get_braintree_gateway();
\* bt_subscriptions = gateway.get_subscriptions_by_id(subscription_ids)
BatchStart ==
    /\ batch.pc # "running"
    /\ \E subscription_ids \in BatchIds :
          batch' = [pc |-> IF gwUp THEN "running" ELSE "raised",
                    todo |-> subscription_ids, attempted |-> {}]
    /\ last' = [Quiet EXCEPT !.op = "batch_start", !.raised = ~gwUp, !.finds = 1,
                             !.lookup_failed = ~gwUp]
    /\ UNCHANGED <<gwUp, gwStatus, customers, addresses, cards, subs, modifierRows, nextId>>

\* One turn of "for bt_subscription in bt_subscriptions:
\*     self.update_or_create_from_remote_object(bt_subscription)".
\* What the call raises leaves the loop and the method.
BatchStep ==
    /\ batch.pc = "running"
    /\ \E remote_obj \in RemoteSubscriptions({Head(batch.todo)}) :
          LET o == SubscriptionUpdateOrCreateFromRemoteObject(Db, gwUp, remote_obj) IN
          /\ IdsWithinBound(o.db, BatchMaxRows)
          /\ SetDb(o.db)
          /\ batch' =
                IF o.raised
                THEN [batch EXCEPT !.pc = "raised",
                                   !.attempted = @ \cup {remote_obj.id}]
                ELSE [pc |-> IF Tail(batch.todo) = << >> THEN "done" ELSE "running",
                      todo |-> Tail(batch.todo),
                      attempted |-> batch.attempted \cup {remote_obj.id}]
          /\ last' = [Quiet EXCEPT
                  !.op = "sync_subscription", !.id = remote_obj.id, !.arg = remote_obj,
                  !.twice = (last.op = "sync_subscription" /\ last.arg = remote_obj),
                  !.raised = o.raised, !.finds = o.finds,
                  !.lookup_failed = o.lookup_failed, !.logged = o.logged,
                  !.ret = o.ret]
    /\ UNCHANGED <<gwUp, gwStatus>>

NextBatch ==
    \/ BatchStart
    \/ BatchStep
    \/ GatewayFlips

\* The batch sync under a gateway that comes and goes.
SpecBatch == Init /\ [][NextBatch]_vars

\* The same, with a running loop never left waiting for ever: the call runs
\* on one thread, and nothing but an exception ends it early.
SpecBatchFair == SpecBatch /\ WF_vars(BatchStep)

SubscriptionRows(id) == {x \in subs : x.id = id}
CreditCardRows(token) == {x \in cards : x.token = token}
RowsOf(item_key, sub) == {x \in modifierRows[item_key] : x.subscription = sub}

\* ------------------------------------------------------ views.py, admin.py
\* The requests the application takes besides the calls above.  SpecApp runs
\* them together with the sync managers and the Subscription methods, over
\* one subscription and AppMaxRows join rows.

Others(op, id) == [Quiet EXCEPT !.op = op, !.id = id]

\* PaymentMethodViewSet.update / partial_update (ModelViewSet): the request
\* body overwrites the descriptive fields of the row.
RestUpdateCreditCard ==
    \E c \in cards :
        /\ cards' = (cards \ {c}) \cup {[c EXCEPT !.data = "edited"]}
        /\ last' = Others("rest_update_credit_card", c.token)
        /\ UNCHANGED <<batch, gwUp, gwStatus, customers, addresses, subs, modifierRows, nextId>>

\* PaymentMethodViewSet.create: PaymentMethodSerializer has no token field
\* (DEFAULT_FIELDS_EXCLUDED), so the row is inserted under the empty token; a
\* second insert under it fails.
RestCreateCreditCard ==
    \E u \in customers :
        /\ IF \E c \in cards : c.token = BlankKey
           THEN /\ cards' = cards
                /\ last' = [Others("rest_create_credit_card", BlankKey) EXCEPT !.raised = TRUE]
           ELSE /\ cards' = cards \cup
                        {[token |-> BlankKey, customer |-> u.id,
                          billing_address |-> NoAddress, data |-> "edited"]}
                /\ last' = Others("rest_create_credit_card", BlankKey)
        /\ UNCHANGED <<batch, gwUp, gwStatus, customers, addresses, subs, modifierRows, nextId>>

\* PaymentMethodViewSet.destroy: Subscription.payment_method is PROTECT.
RestDestroyCreditCard ==
    \E c \in cards :
        /\ IF \E x \in subs : x.payment_method = c.token
           THEN /\ cards' = cards
                /\ last' = [Others("rest_destroy_credit_card", c.token) EXCEPT !.raised = TRUE]
           ELSE /\ cards' = cards \ {c}
                /\ last' = Others("rest_destroy_credit_card", c.token)
        /\ UNCHANGED <<batch, gwUp, gwStatus, customers, addresses, subs, modifierRows, nextId>>

\* CustomerViewSet.update / partial_update.  (The Customer model's code is
\* not part of the source tree, so its create and destroy are left out.)
RestUpdateCustomer ==
    \E u \in customers :
        /\ customers' = (customers \ {u}) \cup {[u EXCEPT !.data = "edited"]}
        /\ last' = Others("rest_update_customer", u.id)
        /\ UNCHANGED <<batch, gwUp, gwStatus, addresses, cards, subs, modifierRows, nextId>>

\* ReadOnlyAdmin: the add view and the delete view of Customer, CreditCard,
\* Plan and Subscription are refused.
AdminModels == {"Customer", "CreditCard", "Plan", "Subscription"}

AdminAddOrDeleteRefused ==
    \E model \in AdminModels :
        /\ last' = [Others("admin_refused", model) EXCEPT !.raised = TRUE]
        /\ UNCHANGED <<batch, gwUp, gwStatus, customers, addresses, cards, subs, modifierRows, nextId>>

\* ReadOnlyAdmin's change form: every field of the object is read-only, so a
\* POST saves the object as it is.
AdminChangeForm ==
    \E model \in AdminModels :
        /\ last' = Others("admin_change", model)
        /\ UNCHANGED <<batch, gwUp, gwStatus, customers, addresses, cards, subs, modifierRows, nextId>>

\* SubscriptionAddOnInline / SubscriptionDiscountInline on SubscriptionAdmin's
\* change form: plain TabularInlines, whose formset adds, changes and deletes
\* the join rows of the subscription.
AdminSubscriptionInline(item_key) ==
    \E self \in subs :
        /\ \/ \E item \in Items(item_key), quantity \in Quantities :
                LET d == CreateModifier(Db, item_key, self.id, item, quantity) IN
                /\ IdsWithinBound(d, AppMaxRows)
                /\ SetDb(d)
           \/ \E row \in RowsOf(item_key, self.id), quantity \in Quantities :
                SetDb(SaveQuantity(Db, item_key, row, quantity))
           \/ \E row \in RowsOf(item_key, self.id) :
                SetDb([Db EXCEPT !.modifierRows[item_key] = @ \ {row}])
        /\ last' = [Others("admin_inline", self.id) EXCEPT !.item_key = item_key]
        /\ UNCHANGED <<batch, gwUp, gwStatus>>

AdminSubscriptionAddOnInline == AdminSubscriptionInline("add_on")
AdminSubscriptionDiscountInline == AdminSubscriptionInline("discount")

\* AddressInline on CustomerAdmin's change form: a plain StackedInline, whose
\* formset adds and deletes the addresses of the customer.  A delete cascades
\* to the credit cards billed to the address (CreditCard.billing_address is
\* CASCADE) and is refused while one of them pays a subscription
\* (Subscription.payment_method is PROTECT).
AdminCustomerAddressInline ==
    \E u \in customers :
        /\ \/ \E id \in AddressIds :
                /\ ~\E a \in addresses : a.id = id
                /\ addresses' = addresses \cup {[id |-> id, customer |-> u.id]}
                /\ cards' = cards
           \/ \E a \in addresses :
                LET billed == {c \in cards : c.billing_address = a.id} IN
                /\ a.customer = u.id
                /\ IF \E c \in billed : \E x \in subs : x.payment_method = c.token
                   THEN /\ addresses' = addresses
                        /\ cards' = cards
                   ELSE /\ addresses' = addresses \ {a}
                        /\ cards' = cards \ billed
        /\ last' = [Others("admin_inline", u.id) EXCEPT !.item_key = "address"]
        /\ UNCHANGED <<batch, gwUp, gwStatus, customers, subs, modifierRows, nextId>>

NextApp ==
    \/ SyncSubscriptionOf(OneSubscription, AppMaxRows)
    \/ SyncCreditCard
    \/ SetItemOn("add_on", AppMaxRows)
    \/ SetItemOn("discount", AppMaxRows)
    \/ remove_add_on
    \/ remove_discount
    \/ cancel
    \/ GatewayFlips
    \/ RestUpdateCreditCard
    \/ RestCreateCreditCard
    \/ RestDestroyCreditCard
    \/ RestUpdateCustomer
    \/ AdminAddOrDeleteRefused
    \/ AdminChangeForm
    \/ AdminSubscriptionAddOnInline
    \/ AdminSubscriptionDiscountInline
    \/ AdminCustomerAddressInline

SpecApp == Init /\ [][NextApp]_vars

\* ================================================================== claims

C2_QuantityReflectsLastSet ==
    (last.op = "set" /\ ~last.raised) =>
        ItemQuantity(Db, last.item_key, last.id, last.item)
            = [raised |-> FALSE, value |-> last.quantity]

\* C3 as claimed.  No divergence on gateway failure: a set_* or remove_* call
\* whose gateway update was not sent, or was sent and did not succeed, leaves
\* the SubscriptionAddOn and SubscriptionDiscount rows as they were.
C3_GatewayFailureLeavesRows ==
    [][ (last'.op \in {"set", "remove"} /\ ~last'.applied) =>
            modifierRows' = modifierRows ]_vars

C5_SyncResolvesCardAndCustomer ==
    [][ /\ \A x \in subs' :
              /\ x.plan \in LocalPlans
              /\ \E c \in cards' : c.token = x.payment_method
        /\ \A c \in cards' : \E u \in customers' : u.id = c.customer
        /\ (last'.op = "sync_subscription" /\ ~last'.lookup_failed
                /\ last'.arg.plan_id \in LocalPlans) =>
              \E x \in subs' :
                  /\ x.id = last'.id
                  /\ x.payment_method = last'.arg.payment_method_token
                  /\ x.plan = last'.arg.plan_id
        /\ (last'.op = "sync_subscription" /\ last'.arg.plan_id \notin LocalPlans) =>
              /\ subs' = subs
              /\ ~last'.raised => last'.ret = "None"
        /\ (last'.op = "sync_credit_card" /\ ~last'.raised) =>
              \E c \in cards' : c.token = last'.id
      ]_vars

\* C5, reached: a subscription sync has fetched the card and the customer from
\* the gateway and returned the instance.
C5_Witness ==
    /\ last.op = "sync_subscription"
    /\ last.finds = 2
    /\ last.ret = "instance"
    /\ \E x \in subs : x.id = last.id /\ \E c \in cards : c.token = x.payment_method

\* C5 as claimed: whenever the lookups of a subscription sync succeed, the
\* call ends with a Subscription row for the remote object whose
\* payment_method and plan reference existing local rows.
C5_SyncResolvesPlanToo ==
    (last.op = "sync_subscription" /\ ~last.lookup_failed) =>
        \E x \in subs :
            /\ x.id = last.id
            /\ x.plan \in LocalPlans
            /\ \E c \in cards : c.token = x.payment_method

\* C6 as claimed.  A gateway lookup that raises inside a sync or a mutation
\* method does not propagate to the caller and is reported.
C6_LookupFailureCaughtAndReported ==
    last.lookup_failed => (~last.raised /\ last.reports >= 1)

\* C7.  False precondition: remove_add_on(a) on a subscription for which
\* has_add_on(a) is false (remove_discount, has_discount) returns without
\* raising, reports one message, makes no gateway call and changes no row.
C7_RemoveWithoutItemIsQuietNoOp ==
    [][ (/\ last'.op = "remove"
         /\ HasItem(Db, last'.item_key, last'.id, last'.item)
                = [raised |-> FALSE, value |-> FALSE]) =>
            /\ ~last'.raised
            /\ last'.reports = 1
            /\ last'.finds = 0
            /\ ~last'.sent
            /\ UNCHANGED <<gwStatus, customers, addresses, cards, subs,
                           modifierRows, nextId>>
      ]_vars

\* C7, reached: remove_* has just been called for an item whose row holds
\* quantity 0; it reported once and sent nothing.
C7_Witness ==
    /\ last.op = "remove"
    /\ last.reports = 1
    /\ ~last.sent
    /\ \E x \in Matching(Db, last.item_key, last.id, last.item) : x.quantity = 0

\* C9 as claimed.  Cancel is write-through: once cancel() has returned the
\* gateway's success, the local Subscription row has status Canceled.
C9_CancelUpdatesLocalStatus ==
    (last.op = "cancel" /\ last.ret = "success") =>
        \A x \in subs : x.id = last.id => x.status = CANCELED

\* The operations that are sync methods.
SyncOps == {"sync_subscription", "sync_credit_card"}

C10_AdminWritesNoRow ==
    [][ last'.op \in {"admin_change", "admin_refused", "admin_inline"} =>
            UNCHANGED <<customers, addresses, cards, subs, modifierRows, nextId>> ]_vars

\* C11 as claimed.  Exists -> update, absent -> create: set_add_on(a, q)
\* (set_discount(d, q)) sends the gateway an "update" entry and modifies the
\* existing local row if and only if a local row for (this subscription, a)
\* exists already; otherwise it sends an "add" entry and creates one new row.
C11_UpdateIffRowExists ==
    [][ (last'.op = "set" /\ last'.mod_str # "-") =>
            LET existing == {x \in modifierRows[last'.item_key] :
                                x.subscription = last'.id /\ x.item = last'.item}
            IN /\ (last'.mod_str = "update") <=> (existing # {})
               /\ existing # {} => nextId' = nextId
      ]_vars

\* C12.  Remove is write-through: when has_add_on(a) is true and the gateway
\* answers the calls made to it, remove_add_on(a) makes one find and sends one
\* update for this subscription, whose payload removes a, then deletes the
\* local SubscriptionAddOn row: afterwards add_on_quantity(a) = 0 and
\* has_add_on(a) is false, and no row of another subscription, no
\* SubscriptionDiscount row and no row of another table has changed
\* (symmetrically for remove_discount).
C12_RemoveIsWriteThrough ==
    [][ (/\ last'.op = "remove"
         /\ HasItem(Db, last'.item_key, last'.id, last'.item)
                = [raised |-> FALSE, value |-> TRUE]
         /\ gwUp
         /\ ~last'.raised) =>
            /\ last'.sent
            /\ last'.finds = 1
            /\ last'.reports = 0
            /\ last'.mod_str = "remove"
            /\ modifierRows'[last'.item_key] =
                  {x \in modifierRows[last'.item_key] :
                      ~(x.subscription = last'.id /\ x.item = last'.item)}
            /\ \A k \in ItemKeys \ {last'.item_key} : modifierRows'[k] = modifierRows[k]
            /\ ItemQuantity(Db', last'.item_key, last'.id, last'.item)
                  = [raised |-> FALSE, value |-> 0]
            /\ HasItem(Db', last'.item_key, last'.id, last'.item)
                  = [raised |-> FALSE, value |-> FALSE]
            /\ UNCHANGED <<customers, addresses, cards, subs, nextId>>
      ]_vars

\* C12, reached: remove_* has just sent its update and deleted the row of one
\* subscription while another subscription holds a row for the same item.
C12_Witness ==
    /\ last.op = "remove"
    /\ last.mod_str = "remove"
    /\ last.sent
    /\ ~last.raised
    /\ Matching(Db, last.item_key, last.id, last.item) = {}
    /\ \E x \in modifierRows[last.item_key] :
          x.subscription # last.id /\ x.item = last.item /\ x.quantity > 0

\* C13.  Related objects are fetched only when absent: the get_or_sync(token)
\* that a subscription sync starts with makes no gateway call and leaves the
\* CreditCard, Customer and Address rows as they are when a CreditCard with
\* that token exists locally, so a card that is present is never refreshed;
\* when none exists it makes one credit_card.find (and one lookup of the
\* card's customer when that is absent too) and, the gateway answering, ends
\* with the row of the remote card; when the find raises, no card is written.
C13_CardFetchedOnlyWhenAbsent ==
    [][ last'.op = "sync_subscription" =>
            LET token == last'.arg.payment_method_token
                remote == RemoteCreditCard(token)
                present == \E c \in cards : c.token = token
                customer_finds ==
                    IF \E u \in customers : u.id = remote.customer_id THEN 0 ELSE 1
            IN /\ present =>
                    /\ last'.finds = 0
                    /\ ~last'.raised
                    /\ UNCHANGED <<cards, customers, addresses>>
               /\ (~present /\ gwUp) =>
                    /\ last'.finds = 1 + customer_finds
                    /\ ~last'.raised
                    /\ [token |-> token, customer |-> remote.customer_id,
                        billing_address |-> remote.billing_address,
                        data |-> remote.data] \in cards'
                    /\ Cardinality({c \in cards' : c.token = token}) = 1
               /\ (~present /\ ~gwUp) =>
                    /\ last'.finds = 1
                    /\ last'.raised
                    /\ UNCHANGED <<cards, customers, addresses, subs, modifierRows>>
      ]_vars

\* C13, reached: a subscription sync has returned the instance without a
\* gateway lookup, and the card it references still holds what a PUT wrote,
\* which is not what the gateway holds.
C13_Witness ==
    /\ last.op = "sync_subscription"
    /\ last.ret = "instance"
    /\ last.finds = 0
    /\ \E c \in cards :
          /\ c.token = last.arg.payment_method_token
          /\ c.data = "edited"
          /\ c.data # RemoteCreditCard(c.token).data

\* C14 as claimed.  Join-row uniqueness: in every state reached by subscription
\* syncs, set_* and remove_* calls there is at most one SubscriptionAddOn row
\* per (subscription, add_on) pair and at most one SubscriptionDiscount row per
\* (subscription, discount) pair, so add_on_quantity and discount_quantity
\* never fail on several matching rows.
C14_OneJoinRowPerPair ==
    \A k \in ItemKeys :
        /\ \A x, y \in modifierRows[k] :
              (x.subscription = y.subscription /\ x.item = y.item) => x = y
        /\ \A s \in subs : \A item \in Items(k) :
              ~ItemQuantity(Db, k, s.id, item).raised

\* C15 as claimed.  A failed subscription sync changes nothing: when
\* update_or_create_from_remote_object logs the error and returns None, the
\* call has created or modified no local row: no Subscription row, no
\* SubscriptionAddOn / SubscriptionDiscount row, no CreditCard, Customer or
\* Address row.
C15_FailedSyncChangesNothing ==
    [][ (last'.op = "sync_subscription" /\ last'.ret = "None") =>
            UNCHANGED <<customers, addresses, cards, subs, modifierRows>> ]_vars

\* C16 as claimed.  Sync makes the local modifiers mirror the remote ones:
\* after update_or_create_from_remote_object has returned the instance, the
\* local SubscriptionAddOn rows of that subscription are exactly the remote
\* subscription's add_ons with the same quantities, and likewise for
\* discounts.
C16_SyncMirrorsModifiers ==
    (last.op = "sync_subscription" /\ last.ret = "instance") =>
        \A k \in ItemKeys :
            LET remote == IF k = "add_on" THEN last.arg.add_ons ELSE last.arg.discounts
            IN {<<x.item, x.quantity>> : x \in RowsOf(k, last.id)}
                 = {<<remote[i].id, remote[i].quantity>> : i \in 1 .. Len(remote)}

\* C17 as claimed.  Batch sync isolates failures: once
\* update_or_create_from_sync(subscription_ids) has the gateway's answer, it
\* attempts every subscription of the batch in turn and eventually has
\* processed the whole batch, whatever fails while one of them is synced, a
\* failure to fetch its credit card included.
C17_BatchIsProcessedWhole ==
    (batch.pc = "running") ~> (batch.pc = "done")

====
